---- MODULE Spec2Model ----
(***************************************************************************)
(* A model of main.py, the Flask wrapper around the App Engine Search API. *)
(*                                                                         *)
(* Strings are sequences of character codes.  A Python value is a record   *)
(* [t, v]: t is the name of its Python 2 type and v its payload (the       *)
(* character codes of a str or unicode, the items of a list, the           *)
(* <<key, value>> pairs of a dict in iteration order).                     *)
(***************************************************************************)
EXTENDS Integers, Sequences, FiniteSets, TLC

VARIABLES
    _USERNAME,  \* the configured username, None when the environment has none
    _PASSWORD,  \* the configured password, None when the environment has none
    index,      \* the backend's index: identifier -> text of the stored documents
    pc,         \* where the request in progress stands: "idle", "issue", "await"
    call,       \* the _delete or _put call of the current request
    futures,    \* the futures of that call, in the order they were issued
    issued,     \* the backend calls the current request has issued
    log,        \* what the current request has logged
    request,    \* the current request: its method, credentials and body or query
    response,   \* the response to it, once it is answered
    fn,         \* pure-function harness: the function applied
    fnArgs,     \* pure-function harness: its arguments
    fnOut       \* pure-function harness: its outcome, NotRun before the call

pureVars == <<fn, fnArgs, fnOut>>

(***************************************************************************)
(* Python values                                                           *)
(***************************************************************************)
PyStr(s) == [t |-> "str", v |-> s]
Unicode(s) == [t |-> "unicode", v |-> s]
None == [t |-> "NoneType", v |-> <<>>]
PyInt(n) == [t |-> "int", v |-> <<n>>]
List(l) == [t |-> "list", v |-> l]
Dict(pairs) == [t |-> "dict", v |-> pairs]

IsStr(x) == x.t = "str"
IsBasestring(x) == x.t \in {"str", "unicode"}

\* The outcome of a call: a returned value, or a raised exception.
Return(x) == [exc |-> "", val |-> x]
Raise(e) == [exc |-> e, val |-> None]
NotRun == [exc |-> "not run", val |-> None]

Repeat(c, n) == [i \in 1..n |-> c]
SeqsUpTo(S, n) == UNION {[1..k -> S] : k \in 0..n}
StartsWith(s, p) == Len(s) >= Len(p) /\ SubSeq(s, 1, Len(p)) = p
EndsWith(s, p) == Len(s) >= Len(p) /\ SubSeq(s, Len(s) - Len(p) + 1, Len(s)) = p

(***************************************************************************)
(* Identifier validation                                                   *)
(***************************************************************************)
\* search.MAXIMUM_DOCUMENT_ID_LENGTH
MAXIMUM_DOCUMENT_ID_LENGTH == 500

\* string.printable without string.whitespace: the codes 33 to 126
_VISIBLE_PRINTABLE_ASCII == 33..126

\* Mutant: the length test lets the empty string through.
Mut_is_valid_doc_id_empty(doc_id) ==
    IF IsStr(doc_id)
    THEN LET s == doc_id.v
             length == Len(s)
         IN  IF MAXIMUM_DOCUMENT_ID_LENGTH < length THEN FALSE
             ELSE IF StartsWith(s, <<33>>) THEN FALSE
             ELSE IF StartsWith(s, <<95, 95>>) /\ EndsWith(s, <<95, 95>>) THEN FALSE
             ELSE \A i \in 1..length : s[i] \in _VISIBLE_PRINTABLE_ASCII
    ELSE FALSE

_is_valid_doc_id(doc_id) ==
    IF IsStr(doc_id)
    THEN LET s == doc_id.v
             length == Len(s)
         IN  IF (length <= 0) \/ (MAXIMUM_DOCUMENT_ID_LENGTH < length) THEN FALSE
             ELSE IF StartsWith(s, <<33>>) THEN FALSE
             ELSE IF StartsWith(s, <<95, 95>>) /\ EndsWith(s, <<95, 95>>) THEN FALSE
             ELSE \A i \in 1..length : s[i] \in _VISIBLE_PRINTABLE_ASCII
    ELSE FALSE

(***************************************************************************)
(* Stripping the relational operators                                      *)
(***************************************************************************)
\* The characters of the pattern '[:=<>]'
Operators == {58, 61, 60, 62}

\* sre_parse.ESCAPES, as the template compiler uses it: \a \b \f \n \r \t \v \\
ESCAPES == [c \in {97, 98, 102, 110, 114, 116, 118, 92} |->
    CASE c = 97 -> 7 [] c = 98 -> 8 [] c = 102 -> 12 [] c = 110 -> 10
      [] c = 114 -> 13 [] c = 116 -> 9 [] c = 118 -> 11 [] OTHER -> 92]

\* re.sub's reading of its replacement argument: a backslash starts an
\* escape.  A backslash that ends the string is an error ("bogus escape");
\* a known escape stands for its character; any other escaped character is
\* kept with its backslash.  ('g' and the digits after a backslash are group
\* references; the replacement strings of the model hold none of them.)
RECURSIVE parse_template(_)
parse_template(r) ==
    IF r = <<>> THEN Return(<<>>)
    ELSE IF r[1] # 92
    THEN LET rest == parse_template(Tail(r))
         IN  IF rest.exc # "" THEN rest ELSE Return(<<r[1]>> \o rest.val)
    ELSE IF Len(r) = 1 THEN Raise("error")
    ELSE LET c == r[2]
             rest == parse_template(SubSeq(r, 3, Len(r)))
             this == IF c \in DOMAIN ESCAPES THEN <<ESCAPES[c]>> ELSE <<92, c>>
         IN  IF rest.exc # "" THEN rest ELSE Return(this \o rest.val)

\* re.sub('[:=<>]', replacement, query) on the character codes: each match of
\* the one-character pattern is replaced by the expanded template.
RECURSIVE SubAll(_, _)
SubAll(q, expanded) ==
    IF q = <<>> THEN <<>>
    ELSE (IF q[1] \in Operators THEN expanded ELSE <<q[1]>>)
         \o SubAll(Tail(q), expanded)

re_sub(replacement, query) ==
    LET template == parse_template(replacement.v)
        matched == \E i \in 1..Len(query.v) : query.v[i] \in Operators
        \* no match: the string itself; otherwise the pieces joined, which
        \* is unicode as soon as one of the two arguments is
        type == IF ~matched THEN query.t
                ELSE IF "unicode" \in {query.t, replacement.t} THEN "unicode"
                ELSE "str"
    IN  IF template.exc # "" THEN template
        ELSE Return([t |-> type, v |-> SubAll(query.v, template.val)])

_strip_operators(query, replacement) ==
    IF ~IsBasestring(query) THEN Raise("TypeError")
    ELSE IF ~IsBasestring(replacement) THEN Raise("TypeError")
    ELSE re_sub(replacement, query)

(***************************************************************************)
(* The search backend (the App Engine Search API, an external service)     *)
(***************************************************************************)
\* The limits the backend declares.  MAXIMUM_DOCUMENTS_PER_PUT_REQUEST,
\* MAXIMUM_QUERY_LENGTH and MAXIMUM_FIELD_VALUE_LENGTH are 200, 2000 and
\* 1048576 in the SDK; main.py reads them by name only, and the model checks
\* it for small values of them.
MAXIMUM_DOCUMENTS_PER_PUT_REQUEST == 2
MAXIMUM_QUERY_LENGTH == 5
MAXIMUM_FIELD_VALUE_LENGTH == 6
MAXIMUM_DOCUMENTS_RETURNED_PER_SEARCH == 1000

Document(doc_id, value) == [t |-> "Document", v |-> <<doc_id, value>>]
IsDocument(x) == x.t = "Document"

EmptyIndex == [d \in {} |-> <<>>]

\* Index.put: each document replaces the one stored under its identifier;
\* of two documents of one call with the same identifier the later stays.
IndexPut(idx, documents) ==
    LET ids == {documents[n].v[1] : n \in 1..Len(documents)}
        last(d) == CHOOSE n \in 1..Len(documents) :
                       /\ documents[n].v[1] = d
                       /\ \A m \in (n + 1)..Len(documents) : documents[m].v[1] # d
    IN  [d \in (DOMAIN idx) \cup ids |->
            IF d \in ids THEN documents[last(d)].v[2] ELSE idx[d]]

\* Index.delete: the identifiers are removed; one that is not stored is ignored.
IndexDelete(idx, ids) ==
    [d \in (DOMAIN idx) \ {ids[n] : n \in 1..Len(ids)} |-> idx[d]]

\* Full-text matching: the words of a text are its maximal runs of letters
\* and digits, compared without case.
IsWordChar(c) == c \in (48..57) \cup (65..90) \cup (97..122)
Lower(c) == IF c \in 65..90 THEN c + 32 ELSE c

RECURSIVE Words(_, _)
Words(s, word) ==
    IF s = <<>> THEN (IF word = <<>> THEN {} ELSE {word})
    ELSE IF IsWordChar(s[1]) THEN Words(Tail(s), Append(word, Lower(s[1])))
    ELSE (IF word = <<>> THEN {} ELSE {word}) \cup Words(Tail(s), <<>>)

Matches(query, text) ==
    /\ Words(query, <<>>) # {}
    /\ Words(query, <<>>) \subseteq Words(text, <<>>)

Rankings(S) ==
    {p \in [1..Cardinality(S) -> S] : \A x \in S : \E n \in DOMAIN p : p[n] = x}

\* Index.search(query, ids_only, limit): what the backend may answer.  It
\* signals an error, or returns up to limit of the matching identifiers in
\* the order it ranks them.
SearchErrors == {"Error", "DeadlineExceededError", "OverQuotaError"}

IndexSearch(idx, query, limit) ==
    LET hits == {d \in DOMAIN idx : Matches(query, idx[d])}
    IN  {Raise(e) : e \in SearchErrors}
        \cup {Return(SubSeq(p, 1, IF Len(p) < limit THEN Len(p) ELSE limit)) :
                 p \in Rankings(hits)}

\* What a put_async or delete_async call comes to: applied, or failed with
\* one of the backend's error kinds, which leaves the index as it was.
FutureErrors == {"Error", "DeadlineExceededError", "OverQuotaError"}
Outcomes == {"ok"} \cup FutureErrors

(***************************************************************************)
(* State                                                                   *)
(***************************************************************************)
_BATCH_SIZE == MAXIMUM_DOCUMENTS_PER_PUT_REQUEST

\* _SAFETY_LIMIT is 15000 in main.py; the model checks the gateway for a
\* small limit, which leaves the list of limit + 1 items within reach.
_SAFETY_LIMIT == 5

mainVars == <<_USERNAME, _PASSWORD, index, pc, call, futures, issued, log,
             request, response>>
vars == <<_USERNAME, _PASSWORD, index, pc, call, futures, issued, log, request, response,
          fn, fnArgs, fnOut>>

NoCall == [kind |-> "", items |-> <<>>, length |-> 0, i |-> 0, awaited |-> 0]
NoResponse == [method |-> "", status |-> 0, json |-> None]
NoRequest == [method |-> "", authorization |-> None, body |-> None]

Request(method, authorization, body) ==
    [method |-> method, authorization |-> authorization, body |-> body]

Response(method, status, json) == [method |-> method, status |-> status, json |-> json]

\* json_error_handler: the error envelope
ErrorJson(code) == [t |-> "error", v |-> <<code>>]
json_error_handler(method, code) == Response(method, code, ErrorJson(code))

Pending == {n \in 1..Len(futures) : futures[n].status = "pending"}

(***************************************************************************)
(* The gateway: _delete, _put, _search                                     *)
(***************************************************************************)
Whitespace == {32, 9, 10, 11, 12, 13}

RECURSIVE lstrip(_)
lstrip(s) == IF s # <<>> /\ s[1] \in Whitespace THEN lstrip(Tail(s)) ELSE s

RECURSIVE rstrip(_)
rstrip(s) ==
    IF s # <<>> /\ s[Len(s)] \in Whitespace THEN rstrip(SubSeq(s, 1, Len(s) - 1))
    ELSE s

strip(s) == rstrip(lstrip(s))

\* _search up to the call of the backend: the outcome when it returns without
\* one, and otherwise the query it sends.
\* Mutant: the length of the query is tested before it is trimmed.
Mut_SearchQuery_untrimmed(query) ==
    IF ~IsBasestring(query) THEN [send |-> FALSE, out |-> Raise("TypeError")]
    ELSE LET q == strip(query.v)
             length == Len(query.v)
         IN  IF (length <= 0) \/ (MAXIMUM_QUERY_LENGTH < length)
             THEN [send |-> FALSE, out |-> Return(<<>>)]
             ELSE [send |-> TRUE,
                   out |-> _strip_operators([t |-> query.t, v |-> q], PyStr(<<32>>))]

SearchQuery(query) ==
    IF ~IsBasestring(query) THEN [send |-> FALSE, out |-> Raise("TypeError")]
    ELSE LET q == strip(query.v)
             length == Len(q)
         IN  IF (length <= 0) \/ (MAXIMUM_QUERY_LENGTH < length)
             THEN [send |-> FALSE, out |-> Return(<<>>)]
             ELSE [send |-> TRUE,
                   out |-> _strip_operators([t |-> query.t, v |-> q], PyStr(<<32>>))]

\* Mutant: the quota error of the backend is not caught.
Mut_SearchResult_quota(answer) ==
    IF answer.exc \in {"Error", "DeadlineExceededError"} THEN Return(<<>>)
    ELSE IF answer.exc # "" THEN answer
    ELSE Return(answer.val)

\* _search from the backend's answer on: every error it signals becomes the
\* empty list, a result becomes the list of its identifiers.
SearchResult(answer) ==
    IF answer.exc \in {"Error", "DeadlineExceededError", "OverQuotaError"}
    THEN Return(<<>>)
    ELSE Return(answer.val)

\* The size check of _delete and _put
\* Mutant: a list of exactly _SAFETY_LIMIT items is refused as well.
Mut_OverLimit_inclusive(length) == length >= _SAFETY_LIMIT

OverLimit(length) == length > _SAFETY_LIMIT

\* documents[i:i+_BATCH_SIZE]
\* Mutant: the slice takes one item more, the first of the next chunk.
Mut_Slice_overlap(items, from, to) ==
    SubSeq(items, from + 1, IF to + 1 < Len(items) THEN to + 1 ELSE Len(items))

Slice(items, from, to) ==
    SubSeq(items, from + 1, IF to < Len(items) THEN to ELSE Len(items))

\* _put's filter of its argument
OnlyDocuments(documents) == SelectSeq(documents, IsDocument)

StartCall(kind, items) ==
    [kind |-> kind, items |-> items, length |-> Len(items), i |-> 0, awaited |-> 0]

\* One turn of the issuing loop: the next chunk goes to the backend.
\* Mutant: the waiting starts after the first chunk is issued.
Mut_Issue_one ==
    /\ pc = "issue"
    /\ call.i < call.length
    /\ futures' = Append(futures,
           [chunk |-> Slice(call.items, call.i, call.i + _BATCH_SIZE),
            status |-> "pending"])
    /\ call' = [call EXCEPT !.i = call.i + _BATCH_SIZE]
    /\ issued' = issued + 1
    /\ pc' = "await"
    /\ UNCHANGED <<_USERNAME, _PASSWORD, index, log, request, response, pureVars>>

Issue ==
    /\ pc = "issue"
    /\ call.i < call.length
    /\ futures' = Append(futures,
           [chunk |-> Slice(call.items, call.i, call.i + _BATCH_SIZE),
            status |-> "pending"])
    /\ call' = [call EXCEPT !.i = call.i + _BATCH_SIZE]
    /\ issued' = issued + 1
    /\ pc' = IF call.i + _BATCH_SIZE < call.length THEN "issue" ELSE "await"
    /\ UNCHANGED <<_USERNAME, _PASSWORD, index, log, request, response, pureVars>>

\* The backend completes a call it was sent.
Resolve(n, outcome) ==
    /\ n \in Pending
    /\ futures' = [futures EXCEPT ![n].status = outcome]
    /\ index' = IF outcome # "ok" THEN index
                ELSE IF call.kind = "put" THEN IndexPut(index, futures[n].chunk)
                ELSE IndexDelete(index, futures[n].chunk)
    /\ UNCHANGED <<_USERNAME, _PASSWORD, pc, call, issued, log, request, response, pureVars>>

LogMessage(kind, status) ==
    CASE status = "Error" -> <<kind, "Unable to">>
      [] status = "DeadlineExceededError" -> <<kind, "Deadline exceeded">>
      [] status = "OverQuotaError" -> <<kind, "Quota exceeded">>
      [] OTHER -> <<>>

\* Mutant: every error of a future returns out of the waiting loop.
Mut_AwaitReturns_any(status, last) == (status # "ok") \/ last

\* Mutant: the quota error is logged and the loop goes on.
Mut_AwaitReturns_never(status, last) == last

\* Whether _delete and _put return after the result of a future: the quota
\* error returns at once, anything else goes on to the next future, if any.
AwaitReturns(status, last) == (status = "OverQuotaError") \/ last

\* One turn of the waiting loop: future.get_result() of the next future
\* returns or raises once the backend has completed the call.  The view
\* answers 200 when the loop ends or the quota error returns out of it.
Await ==
    /\ pc = "await"
    /\ call.awaited < Len(futures)
    /\ LET n == call.awaited + 1
           status == futures[n].status
           returns == AwaitReturns(status, n = Len(futures))
       IN  /\ status # "pending"
           /\ call' = [call EXCEPT !.awaited = n]
           /\ log' = IF status = "ok" THEN log
                     ELSE Append(log, LogMessage(call.kind, status))
           /\ pc' = IF returns THEN "idle" ELSE "await"
           /\ response' = IF returns
                          THEN Response(response.method, 200, PyStr(<<>>))
                          ELSE response
    /\ UNCHANGED <<_USERNAME, _PASSWORD, index, futures, issued, request, pureVars>>

(***************************************************************************)
(* The WSGI application                                                    *)
(***************************************************************************)
Authorization(username, password) == [t |-> "Authorization", v |-> <<username, password>>]

\* Mutant: the password of the request is not compared.
Mut_get_search_index_password(authorization) ==
    IF IsBasestring(_USERNAME) /\ IsBasestring(_PASSWORD)
    THEN IF authorization = None THEN None
         ELSE IF authorization.v[1] = _USERNAME.v
         THEN [t |-> "Index", v |-> _USERNAME.v]
         ELSE None
    ELSE None

get_search_index(authorization) ==
    IF IsBasestring(_USERNAME) /\ IsBasestring(_PASSWORD)
    THEN IF authorization = None THEN None
         ELSE IF (authorization.v[1] = _USERNAME.v) /\ (authorization.v[2] = _PASSWORD.v)
         THEN [t |-> "Index", v |-> _USERNAME.v]
         ELSE None
    ELSE None

\* entry.encode('ascii')
encode_ascii(entry) ==
    IF ~IsBasestring(entry) THEN Raise("AttributeError")
    ELSE IF \E n \in 1..Len(entry.v) : entry.v[n] >= 128 THEN Raise("UnicodeEncodeError")
    ELSE Return(PyStr(entry.v))

\* The loop of delete_view over the entries of the JSON array
RECURSIVE DeleteIds(_)
DeleteIds(entries) ==
    IF entries = <<>> THEN Return(<<>>)
    ELSE LET doc_id == encode_ascii(entries[1])
             rest == DeleteIds(Tail(entries))
         IN  IF doc_id.exc = "AttributeError" THEN doc_id
             ELSE IF rest.exc # "" THEN rest
             ELSE IF doc_id.exc = "" /\ _is_valid_doc_id(doc_id.val)
             THEN Return(<<doc_id.val.v>> \o rest.val)
             ELSE rest

\* Mutant: the value is stored whole, whatever its length.
RECURSIVE Mut_PutDocuments_whole(_)
Mut_PutDocuments_whole(items) ==
    IF items = <<>> THEN <<>>
    ELSE LET k == items[1][1]
             v == items[1][2]
             doc_id == encode_ascii(k)
             rest == Mut_PutDocuments_whole(Tail(items))
         IN  IF doc_id.exc = "" /\ _is_valid_doc_id(doc_id.val)
                /\ IsBasestring(v) /\ (Len(v.v) > 0)
             THEN <<Document(doc_id.val.v, v.v)>> \o rest
             ELSE rest

\* Mutant: every document gets the identifier '0'.
RECURSIVE Mut_PutDocuments_sameid(_)
Mut_PutDocuments_sameid(items) ==
    IF items = <<>> THEN <<>>
    ELSE LET k == items[1][1]
             v == items[1][2]
             doc_id == encode_ascii(k)
             rest == Mut_PutDocuments_sameid(Tail(items))
         IN  IF doc_id.exc = "" /\ _is_valid_doc_id(doc_id.val)
                /\ IsBasestring(v) /\ (Len(v.v) > 0)
             THEN <<Document(<<48>>,
                             Slice(v.v, 0, MAXIMUM_FIELD_VALUE_LENGTH))>> \o rest
             ELSE rest

\* The loop of put_view over the items of the JSON object
RECURSIVE PutDocuments(_)
PutDocuments(items) ==
    IF items = <<>> THEN <<>>
    ELSE LET k == items[1][1]
             v == items[1][2]
             doc_id == encode_ascii(k)
             rest == PutDocuments(Tail(items))
         IN  IF doc_id.exc = "" /\ _is_valid_doc_id(doc_id.val)
                /\ IsBasestring(v) /\ (Len(v.v) > 0)
             THEN <<Document(doc_id.val.v,
                             Slice(v.v, 0, MAXIMUM_FIELD_VALUE_LENGTH))>> \o rest
             ELSE rest

\* A view that answers without calling the gateway
Answer(resp) ==
    /\ response' = resp
    /\ call' = NoCall
    /\ futures' = <<>>
    /\ issued' = 0
    /\ log' = <<>>
    /\ UNCHANGED <<_USERNAME, _PASSWORD, index, pc, pureVars>>

\* A view that calls _delete or _put with a list within the safety limit:
\* an empty list comes back at once, any other starts the issuing loop.
Gateway(method, kind, items) ==
    /\ call' = StartCall(kind, items)
    /\ futures' = <<>>
    /\ issued' = 0
    /\ log' = <<>>
    /\ pc' = IF Len(items) = 0 THEN "idle" ELSE "issue"
    /\ response' = IF Len(items) = 0 THEN Response(method, 200, PyStr(<<>>))
                   ELSE Response(method, 0, None)
    /\ UNCHANGED <<_USERNAME, _PASSWORD, index, pureVars>>

Ready == pc = "idle" /\ Pending = {}

delete_view(authorization, request_json) ==
    /\ Ready
    /\ request' = Request("DELETE", authorization, request_json)
    /\ IF get_search_index(authorization) = None
       THEN Answer(json_error_handler("DELETE", 401))
       ELSE IF request_json.t = "list"
       THEN LET ids == DeleteIds(request_json.v)
            IN  IF ids.exc # "" THEN Answer(json_error_handler("DELETE", 500))
                ELSE IF OverLimit(Len(ids.val))
                THEN Answer(json_error_handler("DELETE", 413))
                ELSE Gateway("DELETE", "delete", ids.val)
       ELSE Answer(Response("DELETE", 200, PyStr(<<>>)))

put_view(method, authorization, request_json) ==
    /\ Ready
    /\ request' = Request(method, authorization, request_json)
    /\ IF get_search_index(authorization) = None
       THEN Answer(json_error_handler(method, 401))
       ELSE IF request_json.t = "dict"
       THEN LET documents == OnlyDocuments(PutDocuments(request_json.v))
            IN  IF OverLimit(Len(documents))
                THEN Answer(json_error_handler(method, 413))
                ELSE Gateway(method, "put", documents)
       ELSE Answer(Response(method, 200, PyStr(<<>>)))

\* The answers the backend may give to the search _search(query) sends it;
\* NoAnswer when _search returns without one.
NoAnswer == Return(<<>>)
Answers(idx, query) ==
    LET sq == SearchQuery(query)
    IN  IF IsBasestring(query) /\ (Len(query.v) > 0) /\ sq.send
        THEN IndexSearch(idx, sq.out.val.v, MAXIMUM_DOCUMENTS_RETURNED_PER_SEARCH)
        ELSE {NoAnswer}

_search(query, answer) ==
    LET sq == SearchQuery(query)
    IN  IF ~sq.send THEN sq.out ELSE SearchResult(answer)

\* The response of get_view to what _search returns or raises
SearchResponse(out) ==
    IF out.exc # "" THEN json_error_handler("GET", 500)
    ELSE Response("GET", 200, List(out.val))

get_view(authorization, query, answer) ==
    /\ Ready
    /\ answer \in Answers(index, query)
    /\ request' = Request("GET", authorization, query)
    /\ IF get_search_index(authorization) = None
       THEN Answer(json_error_handler("GET", 401))
       ELSE IF IsBasestring(query) /\ (Len(query.v) > 0)
       THEN IF ~SearchQuery(query).send
            THEN Answer(SearchResponse(_search(query, answer)))
            ELSE /\ response' = SearchResponse(_search(query, answer))
                 /\ issued' = 1
                 /\ log' = IF answer.exc \in {"DeadlineExceededError", "OverQuotaError"}
                           THEN <<<<"search", answer.exc>>>> ELSE <<>>
                 /\ call' = NoCall
                 /\ futures' = <<>>
                 /\ UNCHANGED <<_USERNAME, _PASSWORD, index, pc, pureVars>>
       ELSE Answer(Response("GET", 200, List(<<>>)))

(***************************************************************************)
(* The pure functions, applied to bounded inputs                           *)
(***************************************************************************)
MaxIdLen == 3
MaxQueryLen == 3
MaxReplLen == 2

\* 'a', '!', '_', space, o-umlaut
IdAlphabet == {97, 33, 95, 32, 246}
\* 'a', ':', '=', '<', '>'
QueryAlphabet == {97, 58, 61, 60, 62}
\* space, '_', 'n', backslash
ReplAlphabet == {32, 95, 110, 92}

NonStrings == {None, PyInt(42), List(<<>>)}

IdStrings ==
    SeqsUpTo(IdAlphabet, MaxIdLen)
    \cup {Repeat(105, MAXIMUM_DOCUMENT_ID_LENGTH),
          Repeat(105, MAXIMUM_DOCUMENT_ID_LENGTH + 1),
          <<95, 95, 97, 95, 95>>, <<95, 95, 97, 95>>, <<95, 97, 95, 95>>,
          <<97, 126>>, <<97, 127>>, <<97, 9>>}

ValidatorInputs ==
    {PyStr(s) : s \in IdStrings} \cup {Unicode(s) : s \in IdStrings} \cup NonStrings

StripQueries ==
    {PyStr(s) : s \in SeqsUpTo(QueryAlphabet, MaxQueryLen)}
    \cup {Unicode(<<97, 246, 58>>)} \cup NonStrings

StripReplacements ==
    {PyStr(s) : s \in SeqsUpTo(ReplAlphabet, MaxReplLen)}
    \cup {Unicode(<<32>>)} \cup NonStrings

IdleInit ==
    /\ index = EmptyIndex
    /\ pc = "idle"
    /\ call = NoCall
    /\ futures = <<>>
    /\ issued = 0
    /\ log = <<>>
    /\ request = NoRequest
    /\ response = NoResponse

PureInit ==
    /\ _USERNAME = None
    /\ _PASSWORD = None
    /\ IdleInit
    /\ fnOut = NotRun
    /\ \/ fn = "_is_valid_doc_id" /\ fnArgs \in {<<x>> : x \in ValidatorInputs}
       \/ fn = "_strip_operators" /\ fnArgs \in StripQueries \X StripReplacements

CallValidate ==
    /\ fn = "_is_valid_doc_id"
    /\ fnOut = NotRun
    /\ fnOut' = Return(_is_valid_doc_id(fnArgs[1]))
    /\ UNCHANGED <<fn, fnArgs, mainVars>>

CallStrip ==
    /\ fn = "_strip_operators"
    /\ fnOut = NotRun
    /\ fnOut' = _strip_operators(fnArgs[1], fnArgs[2])
    /\ UNCHANGED <<fn, fnArgs, mainVars>>

PureNext == CallValidate \/ CallStrip

SpecPure == PureInit /\ [][PureNext]_vars

(***************************************************************************)
(* The HTTP adapter, on small request bodies                               *)
(***************************************************************************)
User == <<117>>
Pass == <<112>>
Other == <<120>>

Authorizations ==
    {None, Authorization(User, Pass), Authorization(Other, Pass),
     Authorization(User, Other)}

\* str(n) for a number of one digit
Digit(n) == <<48 + n>>

\* [str(n) for n in xrange(0, length)]
Numbered(length) == [m \in 1..length |-> Unicode(Digit(m - 1))]

\* dict([(str(n), str(n)) for n in xrange(0, length)]), in the order of n
NumberedItems(length) == [m \in 1..length |-> <<Unicode(Digit(m - 1)), Unicode(Digit(m - 1))>>]

\* u'a', u'b', u'!a', u'__a__', u'a\xf6'
Keys == {Unicode(<<97>>), Unicode(<<98>>), Unicode(<<33, 97>>),
         Unicode(<<95, 95, 97, 95, 95>>), Unicode(<<97, 246>>)}
\* u'cat', u'a cat!!', u'', 5
Values == {Unicode(<<99, 97, 116>>), Unicode(<<97, 32, 99, 97, 116, 33, 33>>),
           Unicode(<<>>), PyInt(5)}
Entries == Keys \cup {PyInt(1), None, List(<<>>)}

\* get_json(silent=True) is None for a body that is not JSON
NotJson == None

\* The JSON arrays of one entry, those of two that hold u'a' or u'b', and
\* one of _SAFETY_LIMIT + 1 identifiers
DeleteBodies ==
    {NotJson, Dict(<<>>), PyInt(1), Unicode(<<97>>), List(<<>>),
     List(Numbered(_SAFETY_LIMIT + 1))}
    \cup {List(<<e>>) : e \in Entries}
    \cup {List(<<d, e>>) : d \in {Unicode(<<97>>), Unicode(<<98>>)}, e \in Entries}
    \cup {List(<<e, d>>) : d \in {Unicode(<<97>>), Unicode(<<98>>)}, e \in Entries}

\* The JSON objects of one item, those of two that hold u'a': u'cat', in
\* both iteration orders, and one of _SAFETY_LIMIT + 1 items
Items == Keys \X Values
BaseItems == {<<Unicode(<<97>>), Unicode(<<99, 97, 116>>)>>}
AnyPutBodies ==
    {NotJson, List(<<>>), PyInt(1), Unicode(<<97>>), Dict(<<>>),
     Dict(NumberedItems(_SAFETY_LIMIT + 1))}
    \cup {Dict(<<x>>) : x \in Items}
    \cup {Dict(<<b, x>>) : b \in BaseItems, x \in Items}
    \cup {Dict(<<x, b>>) : b \in BaseItems, x \in Items}

DistinctKeys(body) ==
    body.t # "dict" \/ \A m, n \in DOMAIN body.v : m # n => body.v[m][1] # body.v[n][1]
PutBodies == {body \in AnyPutBodies : DistinctKeys(body)}

\* no q, '', ' ', 'cat', 'Cat', ' cat ', '  cat  ', 'a:cat', 'a cat!', 'dog'
Queries ==
    {None, Unicode(<<>>), Unicode(<<32>>), Unicode(<<99, 97, 116>>),
     Unicode(<<67, 97, 116>>), Unicode(<<32, 99, 97, 116, 32>>),
     Unicode(<<32, 32, 99, 97, 116, 32, 32>>), Unicode(<<97, 58, 99, 97, 116>>),
     Unicode(<<97, 32, 99, 97, 116, 33>>),
     Unicode(<<100, 111, 103>>)}

\* Every body with the configured credentials, one body with each of the others
Credentials(bodies, body) ==
    ({Authorization(User, Pass)} \X bodies) \cup (Authorizations \X {body})

DeleteRequests == Credentials(DeleteBodies, List(<<Unicode(<<97>>)>>))
PutRequests == Credentials(PutBodies, Dict(<<<<Unicode(<<97>>), Unicode(<<99, 97, 116>>)>>>>))

AdapterInit ==
    /\ _USERNAME \in {None, PyStr(User)}
    /\ _PASSWORD \in {None, PyStr(Pass)}
    /\ IdleInit
    /\ fn = ""
    /\ fnArgs = <<>>
    /\ fnOut = NotRun

Delete == Ready /\ \E r \in DeleteRequests : delete_view(r[1], r[2])
Put == Ready /\ \E method \in {"POST", "PUT"}, r \in PutRequests :
                    put_view(method, r[1], r[2])
Backend == \E n \in Pending, outcome \in Outcomes : Resolve(n, outcome)

AdapterNext == Delete \/ Put \/ Issue \/ Backend \/ Await

SpecAdapter == AdapterInit /\ [][AdapterNext]_vars

(***************************************************************************)
(* The four verbs, on a few documents and queries                          *)
(***************************************************************************)
\* not JSON, {}, [], [u'a'], [u'b'], [u'a', u'b'], [u'!a'], [1]
FewDeleteBodies ==
    {NotJson, Dict(<<>>), List(<<>>), List(<<Unicode(<<97>>)>>),
     List(<<Unicode(<<98>>)>>), List(<<Unicode(<<97>>), Unicode(<<98>>)>>),
     List(<<Unicode(<<33, 97>>)>>), List(<<PyInt(1)>>)}

\* not JSON, [], {}, {u'a': u'cat'}, {u'a': u'a cat!!'}, {u'b': u'cat'},
\* {u'b': u'a cat!!', u'a': u'cat'}, {u'!a': u'cat'}, {u'a': u''}
FewPutBodies ==
    {NotJson, List(<<>>), Dict(<<>>),
     Dict(<<<<Unicode(<<97>>), Unicode(<<99, 97, 116>>)>>>>),
     Dict(<<<<Unicode(<<97>>), Unicode(<<97, 32, 99, 97, 116, 33, 33>>)>>>>),
     Dict(<<<<Unicode(<<98>>), Unicode(<<99, 97, 116>>)>>>>),
     Dict(<<<<Unicode(<<98>>), Unicode(<<97, 32, 99, 97, 116, 33, 33>>)>>,
            <<Unicode(<<97>>), Unicode(<<99, 97, 116>>)>>>>),
     Dict(<<<<Unicode(<<33, 97>>), Unicode(<<99, 97, 116>>)>>>>),
     Dict(<<<<Unicode(<<97>>), Unicode(<<>>)>>>>)}

FewDeleteRequests == Credentials(FewDeleteBodies, List(<<Unicode(<<97>>)>>))
FewPutRequests ==
    Credentials(FewPutBodies, Dict(<<<<Unicode(<<97>>), Unicode(<<99, 97, 116>>)>>>>))
GetRequests == Credentials(Queries, Unicode(<<99, 97, 116>>))

Init == AdapterInit

FewDelete == Ready /\ \E r \in FewDeleteRequests : delete_view(r[1], r[2])
FewPut == Ready /\ \E method \in {"POST", "PUT"}, r \in FewPutRequests :
                       put_view(method, r[1], r[2])
Get == Ready /\ \E r \in GetRequests : \E answer \in Answers(index, r[2]) :
                    get_view(r[1], r[2], answer)

Next == FewDelete \/ FewPut \/ Get \/ Issue \/ Backend \/ Await

Spec == Init /\ [][Next]_vars

(***************************************************************************)
(* The gateway, on lists up to two items over the safety limit             *)
(***************************************************************************)
\* The arrays of 0 to limit + 2 numbers; ['i'] * limit and ['i'] * (limit + 1);
\* limit numbers followed by u'!a', and followed by null; ['0'] * (batch + 1)
BulkDeleteBodies ==
    {List(Numbered(n)) : n \in 0..(_SAFETY_LIMIT + 2)}
    \cup {List([m \in 1..n |-> Unicode(<<105>>)]) : n \in {_SAFETY_LIMIT, _SAFETY_LIMIT + 1}}
    \cup {List(Numbered(_SAFETY_LIMIT) \o <<Unicode(<<33, 97>>)>>),
          List(Numbered(_SAFETY_LIMIT) \o <<None>>),
          List([m \in 1..(_BATCH_SIZE + 1) |-> Unicode(Digit(0))])}

\* The objects of 0 to limit + 2 numbers; limit numbers followed by the items
\* u'!a': u'cat' and u'a': u''
BulkPutBodies ==
    {Dict(NumberedItems(n)) : n \in 0..(_SAFETY_LIMIT + 2)}
    \cup {Dict(NumberedItems(_SAFETY_LIMIT)
               \o <<<<Unicode(<<33, 97>>), Unicode(<<99, 97, 116>>)>>,
                    <<Unicode(<<97>>), Unicode(<<>>)>>>>)}

BulkQueries == {Unicode(Digit(0)), Unicode(Digit(0) \o <<32>> \o Digit(1))}

GatewayInit ==
    /\ _USERNAME = PyStr(User)
    /\ _PASSWORD = PyStr(Pass)
    /\ IdleInit
    /\ fn = ""
    /\ fnArgs = <<>>
    /\ fnOut = NotRun

BulkDelete == Ready /\ \E body \in BulkDeleteBodies :
                  delete_view(Authorization(User, Pass), body)
BulkPut == Ready /\ \E body \in BulkPutBodies :
               put_view("PUT", Authorization(User, Pass), body)
BulkGet == Ready /\ \E q \in BulkQueries : \E answer \in Answers(index, q) :
               get_view(Authorization(User, Pass), q, answer)

GatewayNext == BulkDelete \/ BulkPut \/ BulkGet \/ Issue \/ Backend \/ Await

SpecGateway == GatewayInit /\ [][GatewayNext]_vars

(***************************************************************************)
(* Properties                                                              *)
(***************************************************************************)
\* A value is a valid identifier: a str of 1 to 500 characters, each of them
\* visible printable ASCII, that does not start with '!' and does not both
\* start and end with '__'.
ValidIdentifier(x) ==
    /\ IsStr(x)
    /\ Len(x.v) >= 1
    /\ Len(x.v) <= 500
    /\ \A n \in 1..Len(x.v) : x.v[n] >= 33 /\ x.v[n] <= 126
    /\ x.v[1] # 33
    /\ ~(StartsWith(x.v, <<95, 95>>) /\ EndsWith(x.v, <<95, 95>>))

\* C1: identifier validation returns true exactly for the valid identifiers
\* (a string being a Python 2 str, the type the views pass it after
\* encode('ascii')); for every other argument (a value that is no str, the
\* empty string, one longer than 500, one holding a space or a character that
\* is not ASCII) it returns false; it raises no error.
C1_ValidIdentifiersOnly ==
    (fn = "_is_valid_doc_id" /\ fnOut # NotRun)
        => /\ fnOut.exc = ""
           /\ fnOut.val = ValidIdentifier(fnArgs[1])

\* An identifier of exactly 500 characters has been accepted.
C1_Witness ==
    /\ fn = "_is_valid_doc_id"
    /\ fnOut.exc = ""
    /\ fnOut.val = TRUE
    /\ Len(fnArgs[1].v) = 500

\* The request carries credentials equal to the configured ones.
Authenticated(req) ==
    /\ req.authorization # None
    /\ _USERNAME # None
    /\ _PASSWORD # None
    /\ req.authorization.v[1] = _USERNAME.v
    /\ req.authorization.v[2] = _PASSWORD.v

\* C2: a request on any of the four verbs whose credentials are missing, or
\* whose username or password differs from the configured one, or that
\* arrives while either credential is not configured, is answered 401 before
\* anything else: nothing is issued to the backend and the index is
\* unchanged.
C2_UnauthenticatedGets401 ==
    [][(request'.method \in {"GET", "POST", "PUT", "DELETE"}
            /\ ~Authenticated(request'))
        => /\ response' = [method |-> request'.method, status |-> 401,
                           json |-> [t |-> "error", v |-> <<401>>]]
           /\ issued' = 0
           /\ futures' = <<>>
           /\ pc' = "idle"
           /\ index' = index]_vars

\* A DELETE with the right username and a wrong password has been answered
\* 401 while the index held a document.
C2_Witness ==
    /\ request.method = "DELETE"
    /\ request.authorization = Authorization(User, Other)
    /\ _USERNAME = PyStr(User)
    /\ _PASSWORD = PyStr(Pass)
    /\ response.status = 401
    /\ DOMAIN index # {}

\* The text without its leading and trailing whitespace.
Trimmed(s) ==
    LET black == {n \in 1..Len(s) : s[n] \notin {9, 10, 11, 12, 13, 32}}
    IN  IF black = {} THEN <<>>
        ELSE SubSeq(s, CHOOSE n \in black : \A m \in black : n <= m,
                       CHOOSE n \in black : \A m \in black : m <= n)

\* The answers with which the backend signals a malformed query (its generic
\* search error), an exceeded deadline or exhausted quota.
BackendFailures ==
    {[exc |-> e, val |-> None] :
        e \in {"Error", "DeadlineExceededError", "OverQuotaError"}}

\* C7: for every string query, search returns a list and propagates no
\* error (the view answers 200 with a JSON list); the list is empty when the
\* trimmed query is empty or longer than the backend's maximum query length,
\* and then the backend is not asked; the list is empty whenever the backend
\* signals a malformed query, an exceeded deadline or exhausted quota; the
\* index is never modified.
C7_SearchNeverFails ==
    [][(request'.method = "GET" /\ Authenticated(request')
            /\ request'.body.t \in {"str", "unicode"})
        => /\ response'.status = 200
           /\ response'.json.t = "list"
           /\ index' = index
           /\ pc' = "idle"
           /\ LET length == Len(Trimmed(request'.body.v))
              IN  (length = 0 \/ length > MAXIMUM_QUERY_LENGTH)
                      => (response'.json.v = <<>> /\ issued' = 0)
           /\ \A answer \in BackendFailures :
                  get_view(request'.authorization, request'.body, answer)
                      => response'.json.v = <<>>]_vars

\* The backend was asked, ran out of quota, and the search returned the
\* empty list although the index holds a document that matches the query.
C7_Witness ==
    /\ request.method = "GET"
    /\ request.body = Unicode(<<99, 97, 116>>)
    /\ issued = 1
    /\ log = <<<<"search", "OverQuotaError">>>>
    /\ response.status = 200
    /\ response.json = List(<<>>)
    /\ \E d \in DOMAIN index : index[d] = <<99, 97, 116>>

\* The identifiers that a DELETE body (a JSON array of strings) names: its
\* entries that are valid identifiers, in their order.
IdsOf(body) ==
    LET Kept(entry) == ValidIdentifier(PyStr(entry.v))
        kept == SelectSeq(body.v, Kept)
    IN  [n \in 1..Len(kept) |-> kept[n].v]

\* The documents that a POST or PUT body (a JSON object of string-to-string
\* pairs) names: one for each key that is a valid identifier and whose
\* value is not empty, the value cut at the field-length limit.
DocumentsOf(body) ==
    LET Kept(pair) == ValidIdentifier(PyStr(pair[1].v)) /\ Len(pair[2].v) > 0
        kept == SelectSeq(body.v, Kept)
        Cut(text) == IF Len(text) <= MAXIMUM_FIELD_VALUE_LENGTH THEN text
                     ELSE SubSeq(text, 1, MAXIMUM_FIELD_VALUE_LENGTH)
    IN  [n \in 1..Len(kept) |->
            [t |-> "Document", v |-> <<kept[n][1].v, Cut(kept[n][2].v)>>]]

ArrayOfStrings(body) ==
    /\ body.t = "list"
    /\ \A n \in 1..Len(body.v) : body.v[n].t \in {"str", "unicode"}

ObjectOfStringPairs(body) ==
    /\ body.t = "dict"
    /\ \A n \in 1..Len(body.v) :
           /\ body.v[n][1].t \in {"str", "unicode"}
           /\ body.v[n][2].t \in {"str", "unicode"}

\* The list that an authenticated, well-shaped request hands to _delete or
\* _put; the empty list for any other request.
Handed(req) ==
    IF ~Authenticated(req) THEN <<>>
    ELSE IF req.method = "DELETE" /\ ArrayOfStrings(req.body) THEN IdsOf(req.body)
    ELSE IF req.method \in {"POST", "PUT"} /\ ObjectOfStringPairs(req.body)
    THEN DocumentsOf(req.body)
    ELSE <<>>

\* C3: _delete and _put accept a list of exactly _SAFETY_LIMIT items (15000
\* in main.py) and the call completes without error: every item is handed to
\* the backend and the view answers 200; a list of one item more fails with
\* the over-limit error, which the view renders as 413, before any chunk is
\* issued, so the index is unchanged.
C3_LimitIsInclusive ==
    [][LET length == Len(Handed(request'))
       IN  /\ (length = _SAFETY_LIMIT)
                  => /\ call'.items = Handed(request')
                     /\ response'.status \in {0, 200}
                     /\ (pc' = "idle") => /\ response'.status = 200
                                          /\ issued' = Len(futures')
                                          /\ call'.i >= length
           /\ (length > _SAFETY_LIMIT)
                  => /\ response' = [method |-> request'.method, status |-> 413,
                                     json |-> [t |-> "error", v |-> <<413>>]]
                     /\ issued' = 0
                     /\ futures' = <<>>
                     /\ pc' = "idle"
                     /\ index' = index]_vars

\* A delete of exactly _SAFETY_LIMIT identifiers has been issued in full,
\* every chunk succeeded and was awaited, and the view answered 200.
C3_Witness ==
    /\ request.method = "DELETE"
    /\ call.kind = "delete"
    /\ call.length = _SAFETY_LIMIT
    /\ pc = "idle"
    /\ response.status = 200
    /\ call.awaited = Len(futures)
    /\ \A n \in 1..Len(futures) : futures[n].status = "ok"

\* The query with each of ':', '=', '<', '>' replaced by one copy of the
\* replacement, every other character kept in place.
RECURSIVE Replaced(_, _)
Replaced(q, r) ==
    IF q = <<>> THEN <<>>
    ELSE (IF q[1] \in {58, 61, 60, 62} THEN r ELSE <<q[1]>>) \o Replaced(Tail(q), r)

IsSubstring(q, text) ==
    \E k \in 0..(Len(text) - Len(q)) : SubSeq(text, k + 1, k + Len(q)) = q

\* A put whose every chunk succeeded has stored each of its documents, and a
\* delete whose every chunk succeeded has removed each of its identifiers.
Stored ==
    (/\ pc = "idle"
     /\ call.awaited = Len(futures)
     /\ \A n \in 1..Len(futures) : futures[n].status = "ok")
        => \A n \in 1..Len(call.items) :
               IF call.kind = "put"
               THEN /\ call.items[n].v[1] \in DOMAIN index
                    /\ index[call.items[n].v[1]] = call.items[n].v[2]
               ELSE call.items[n] \notin DOMAIN index

\* A document leaves the index only by a delete that names it.
OnlyDeletedLeave ==
    \A d \in DOMAIN index :
        d \notin DOMAIN index'
            => /\ call.kind = "delete"
               /\ \E n \in 1..Len(call.items) : call.items[n] = d

\* The query is a substring, of one character at least, of the text.
SubstringHit(q, text) == Len(q) >= 1 /\ IsSubstring(q, text)

\* The query, trimmed, is not empty and not longer than the maximum query
\* length, and the backend matches it, its operators replaced by spaces,
\* against the text.
SentHit(q, text) ==
    /\ Len(Trimmed(q)) >= 1
    /\ Len(Trimmed(q)) <= MAXIMUM_QUERY_LENGTH
    /\ Matches(Replaced(Trimmed(q), <<32>>), text)

\* A search the backend answers without failure returns the identifier of
\* the one document that the query hits (as a substring of its text, or as
\* a query that is sent and matched), and the empty list when the backend
\* matches no document; it returns documents of the index only.
SearchReturns(substring) ==
    (request'.method = "GET" /\ Authenticated(request')
        /\ request'.body.t \in {"str", "unicode"})
    => \A answer \in Answers(index, request'.body) :
           (answer.exc = ""
               /\ get_view(request'.authorization, request'.body, answer))
           => LET q == request'.body.v
                  sent == Replaced(Trimmed(q), <<32>>)
                  hits == {d \in DOMAIN index :
                              IF substring THEN SubstringHit(q, index[d])
                              ELSE SentHit(q, index[d])}
                  found == {response'.json.v[n] : n \in 1..Len(response'.json.v)}
              IN  /\ response'.status = 200
                  /\ \A d \in hits :
                         (/\ hits = {d}
                          /\ \A e \in DOMAIN index \ {d} : ~Matches(sent, index[e]))
                         => response'.json.v = <<d>>
                  /\ (\A d \in DOMAIN index : ~Matches(sent, index[d]))
                         => response'.json.v = <<>>
                  /\ found \subseteq DOMAIN index

\* C4 as stated: round trip, with no backend failure and no other matching
\* document: after a document is put, a search for a substring of its text
\* returns its identifier; after it is deleted the same search returns the
\* empty list; documents that were not deleted are still returned.
C4_RoundTripSubstring ==
    [][Stored' /\ OnlyDeletedLeave /\ SearchReturns(TRUE)]_vars

\* C4, amended: the same round trip for a query that, trimmed, is not empty
\* and not longer than the maximum query length, and that the backend
\* matches against the stored text once its operators are replaced by
\* spaces.
C4_RoundTripSent ==
    [][Stored' /\ OnlyDeletedLeave /\ SearchReturns(FALSE)]_vars

\* The search for u'a:cat' has returned the identifier of the one document,
\* put with the text u'a cat!!', whose stored text the backend matches.
C4_Witness ==
    /\ request.method = "GET"
    /\ request.body = Unicode(<<97, 58, 99, 97, 116>>)
    /\ issued = 1
    /\ response.status = 200
    /\ response.json = List(<<<<97>>>>)
    /\ DOMAIN index = {<<97>>}
    /\ index[<<97>>] = <<97, 32, 99, 97, 116, 33>>

\* An authenticated POST or PUT of a JSON object of string-to-string pairs
\* whose documents number at most the given limit is taken as one call of
\* _put with exactly the documents its pairs name, in their order; nothing
\* but chunks of that list is handed to the backend, the index changes at
\* those documents only, and the response is 200.
PutsItsDocuments(limit) ==
    (/\ request'.method \in {"POST", "PUT"}
     /\ Authenticated(request')
     /\ ObjectOfStringPairs(request'.body)
     /\ Len(DocumentsOf(request'.body)) <= limit)
    => LET documents == DocumentsOf(request'.body)
       IN  /\ call'.kind = "put"
           /\ call'.items = documents
           /\ response'.status \in {0, 200}
           /\ (pc' = "idle") => response'.status = 200
           /\ \A n \in 1..Len(futures') :
                  futures'[n].chunk
                      = SubSeq(documents, (n - 1) * _BATCH_SIZE + 1,
                               IF n * _BATCH_SIZE < Len(documents)
                               THEN n * _BATCH_SIZE ELSE Len(documents))
           /\ \A d \in DOMAIN index' :
                  (d \notin DOMAIN index \/ index'[d] # index[d])
                      => \E n \in 1..Len(documents) :
                             documents[n].v = <<d, index'[d]>>
           /\ DOMAIN index \subseteq DOMAIN index'

\* C5 as stated: an authenticated POST or PUT whose body is a JSON object
\* of string-to-string pairs submits, as one put batch, exactly one document
\* for each key that is a valid identifier and whose value is not empty (the
\* value cut at the field-length limit); every other entry is dropped and
\* does not change the index; the response is 200.
C5_ObjectIsPut ==
    [][PutsItsDocuments(Len(request'.body.v))]_vars

\* C5, amended: the same, provided the documents so named number at most
\* _SAFETY_LIMIT.
C5_ObjectWithinLimitIsPut ==
    [][PutsItsDocuments(_SAFETY_LIMIT)]_vars

\* A PUT of {u'!a': u'a cat!!', u'a': u'cat'} has been answered 200, one
\* document was submitted, and the index holds u'a' and no u'!a'.
C5_Witness ==
    /\ request.method = "PUT"
    /\ request.body = Dict(<<<<Unicode(<<33, 97>>), Unicode(<<97, 32, 99, 97, 116, 33, 33>>)>>,
                             <<Unicode(<<97>>), Unicode(<<99, 97, 116>>)>>>>)
    /\ pc = "idle"
    /\ response.status = 200
    /\ issued = 1
    /\ Len(call.items) = 1
    /\ DOMAIN index = {<<97>>}

\* C6 as stated: an authenticated POST, PUT or DELETE whose body is not JSON
\* or has the wrong shape (for POST and PUT anything but a JSON object of
\* string-to-string pairs, for DELETE anything but a JSON array of strings)
\* is treated as an empty request: nothing is put or deleted and the
\* response is 200, never an error status.
C6_MalformedIsEmpty ==
    (/\ Authenticated(request)
     /\ \/ request.method \in {"POST", "PUT"} /\ ~ObjectOfStringPairs(request.body)
        \/ request.method = "DELETE" /\ ~ArrayOfStrings(request.body))
    => /\ pc = "idle"
       /\ response.status = 200
       /\ issued = 0
       /\ futures = <<>>

\* C8: for every string query and string replacement _strip_operators returns
\* the query with each operator replaced by one copy of the replacement; when
\* the query or the replacement is no string it fails with a type error.
C8_EachOperatorReplaced ==
    (fn = "_strip_operators" /\ fnOut # NotRun)
        => IF IsBasestring(fnArgs[1]) /\ IsBasestring(fnArgs[2])
           THEN /\ fnOut.exc = ""
                /\ fnOut.val.v = Replaced(fnArgs[1].v, fnArgs[2].v)
           ELSE fnOut.exc = "TypeError"

\* The turn of the waiting loop that takes the result of the next future,
\* when that result is one of the given errors.
Awaits(errors) ==
    /\ pc = "await"
    /\ call'.awaited = call.awaited + 1
    /\ futures[call'.awaited].status \in errors

Logged ==
    /\ Len(log') = Len(log) + 1
    /\ SubSeq(log', 1, Len(log)) = log
    /\ log'[Len(log')][1] = call.kind

\* What a chunk that succeeded did is in the index: the documents of a put
\* are stored, the identifiers of a delete are gone.
Applied(n) ==
    \A m \in 1..Len(futures[n].chunk) :
        IF call.kind = "put"
        THEN /\ futures[n].chunk[m].v[1] \in DOMAIN index
             /\ index[futures[n].chunk[m].v[1]] = futures[n].chunk[m].v[2]
        ELSE futures[n].chunk[m] \notin DOMAIN index

QuotaAwaited ==
    \E n \in 1..call.awaited : futures[n].status = "OverQuotaError"

\* C9: in _delete and _put, a chunk whose awaited result is the generic
\* error or the exceeded deadline is logged and skipped: the loop goes on to
\* every chunk after it, what the chunks that succeeded did stays in the
\* index, and the call returns normally, the view answering 200.
C9_TransientErrorSkipped ==
    [][/\ Awaits({"Error", "DeadlineExceededError"})
           => /\ Logged
              /\ index' = index
              /\ futures' = futures
              /\ IF call'.awaited < Len(futures)
                 THEN pc' = "await" /\ response' = response
                 ELSE pc' = "idle" /\ response'.status = 200
       /\ (pc' = "idle" /\ call'.kind \in {"delete", "put"} /\ ~QuotaAwaited')
           => /\ call'.awaited = Len(futures')
              /\ response'.status = 200
       /\ \A n \in 1..Len(futures') :
              (futures'[n].status = "ok") => Applied(n)']_vars

\* A put of three chunks has returned with 200: the first failed with the
\* generic error, the second with the deadline, both were logged, the third
\* was awaited and its document is in the index.
C9_Witness ==
    /\ call.kind = "put"
    /\ pc = "idle"
    /\ response.status = 200
    /\ Len(futures) = 3
    /\ futures[1].status = "Error"
    /\ futures[2].status = "DeadlineExceededError"
    /\ futures[3].status = "ok"
    /\ call.awaited = 3
    /\ Len(log) = 2
    /\ DOMAIN index = {futures[3].chunk[1].v[1]}

\* C10: in _delete and _put, as soon as an awaited chunk reports exhausted
\* quota the call returns normally, the view answering 200; no chunk after
\* it is awaited and none is issued again until the next request.  The
\* chunks after it have been applied or not, as the backend got to them.
C10_QuotaReturnsAtOnce ==
    [][/\ Awaits({"OverQuotaError"})
           => /\ Logged
              /\ pc' = "idle"
              /\ response' = [method |-> request.method, status |-> 200,
                              json |-> [t |-> "str", v |-> <<>>]]
              /\ index' = index
              /\ futures' = futures
              /\ issued' = issued
       /\ (call.awaited >= 1 /\ futures[call.awaited].status = "OverQuotaError")
           => /\ pc = "idle"
              /\ response.status = 200
              /\ (call'.awaited = call.awaited /\ Len(futures') = Len(futures))
                    \/ (call'.awaited = 0 /\ futures' = <<>>)]_vars

\* A delete of three chunks returned when the first reported exhausted
\* quota: of the two chunks it did not wait for, the second has been applied
\* and the third has not.
C10_Witness ==
    /\ call.kind = "delete"
    /\ pc = "idle"
    /\ response.status = 200
    /\ Len(futures) = 3
    /\ call.awaited = 1
    /\ futures[1].status = "OverQuotaError"
    /\ futures[2].status = "ok"
    /\ futures[3].status = "pending"
    /\ futures[2].chunk[1] \notin DOMAIN index
    /\ futures[3].chunk[1] \in DOMAIN index

\* ceil(n / size)
CeilDiv(n, size) == (n + size - 1) \div size

RECURSIVE Concat(_)
Concat(chunks) ==
    IF chunks = <<>> THEN <<>> ELSE chunks[1] \o Concat(Tail(chunks))

Chunks == [n \in 1..Len(futures) |-> futures[n].chunk]

\* C11: for a list of n items, n at most _SAFETY_LIMIT, _delete and _put
\* issue exactly ceil(n / _BATCH_SIZE) asynchronous calls, none when n = 0;
\* every call carries between 1 and _BATCH_SIZE items, only the last may
\* carry fewer, and the chunks concatenated in issue order are the list, so
\* every item is sent exactly once.  While chunks are being issued, those
\* issued so far are the full chunks of a prefix of the list.
C11_ChunksPartitionTheList ==
    (call.kind \in {"delete", "put"})
    => LET n == Len(Handed(request))
       IN  /\ n <= _SAFETY_LIMIT
           /\ call.items = Handed(request)
           /\ issued = Len(futures)
           /\ \A m \in 1..Len(futures) :
                  /\ Len(futures[m].chunk) >= 1
                  /\ Len(futures[m].chunk) <= _BATCH_SIZE
                  /\ (m < Len(futures)) => Len(futures[m].chunk) = _BATCH_SIZE
           /\ IF pc = "issue"
              THEN /\ Len(futures) < CeilDiv(n, _BATCH_SIZE)
                   /\ Concat(Chunks)
                          = SubSeq(call.items, 1, Len(futures) * _BATCH_SIZE)
              ELSE /\ Len(futures) = CeilDiv(n, _BATCH_SIZE)
                   /\ Concat(Chunks) = call.items

\* A put of _SAFETY_LIMIT documents has returned; it was issued in
\* ceil(_SAFETY_LIMIT / _BATCH_SIZE) chunks, more than one, which
\* concatenated are the list.
C11_Witness ==
    /\ call.kind = "put"
    /\ call.length = _SAFETY_LIMIT
    /\ pc = "idle"
    /\ response.status = 200
    /\ Len(futures) = CeilDiv(_SAFETY_LIMIT, _BATCH_SIZE)
    /\ Len(futures) > 1
    /\ Concat(Chunks) = call.items

\* C12: within one call of _delete or _put the phases come in the order
\* size check, issue of all chunks, await of the results: a chunk is issued
\* only after the size check passed and before any result is awaited; a
\* result is awaited only when every chunk has been issued, one at a time in
\* issue order and once it is there; no chunk is issued when the size check
\* fails; and unless a chunk reported exhausted quota the call returns only
\* after the result of every chunk has been awaited.
C12_PhasesInOrder ==
    [][/\ (Len(futures') > Len(futures))
           => /\ pc = "issue"
              /\ response.status = 0
              /\ call.awaited = 0
              /\ call'.awaited = 0
              /\ Len(futures') = Len(futures) + 1
       /\ (call'.awaited > call.awaited)
           => /\ call'.awaited = call.awaited + 1
              /\ Len(futures) = CeilDiv(call.length, _BATCH_SIZE)
              /\ futures[call'.awaited].status # "pending"
              /\ futures' = futures
              /\ issued' = issued
              /\ Len(log') = Len(log)
                     + (IF futures[call'.awaited].status = "ok" THEN 0 ELSE 1)
       /\ (response'.status = 413)
           => /\ futures' = <<>>
              /\ issued' = 0
              /\ pc' = "idle"
       /\ (pc' = "idle" /\ call'.kind \in {"delete", "put"} /\ ~QuotaAwaited')
           => /\ call'.awaited = Len(futures')
              /\ Len(futures') = CeilDiv(call'.length, _BATCH_SIZE)
              /\ \A n \in 1..Len(futures') : futures'[n].status # "pending"]_vars

\* Every chunk of a delete has been issued, the result of the first has been
\* awaited, and the result of the last is not there yet.
C12_Witness ==
    /\ call.kind = "delete"
    /\ pc = "await"
    /\ Len(futures) = CeilDiv(_SAFETY_LIMIT, _BATCH_SIZE)
    /\ Len(futures) > 1
    /\ issued = Len(futures)
    /\ call.awaited = 1
    /\ futures[Len(futures)].status = "pending"

\* The entries of a DELETE body that are valid: strings that are valid
\* identifiers.
ValidIds(body) ==
    LET Kept(entry) ==
            entry.t \in {"str", "unicode"} /\ ValidIdentifier(PyStr(entry.v))
        kept == SelectSeq(body.v, Kept)
    IN  [n \in 1..Len(kept) |-> kept[n].v]

\* The entries of a POST or PUT body that are valid: a key that is a valid
\* identifier with a value that is a non-empty string; as the documents
\* they name.
ValidDocuments(body) ==
    LET Kept(pair) ==
            /\ ValidIdentifier(PyStr(pair[1].v))
            /\ pair[2].t \in {"str", "unicode"}
            /\ Len(pair[2].v) > 0
    IN  DocumentsOf([t |-> "dict", v |-> SelectSeq(body.v, Kept)])

\* The safety limit counts the valid entries of the body of an
\* authenticated DELETE, POST or PUT (of a DELETE, only when its entries
\* are all strings, if stringsOnly): the answer is 413 exactly when they
\* number more than _SAFETY_LIMIT; otherwise the valid entries, and only
\* they, are handed to the backend and the answer is 200.
LimitCountsValid(stringsOnly) ==
    (/\ Authenticated(request')
     /\ \/ request'.method = "DELETE" /\ request'.body.t = "list"
        \/ request'.method \in {"POST", "PUT"} /\ request'.body.t = "dict"
     /\ (stringsOnly /\ request'.method = "DELETE")
            => ArrayOfStrings(request'.body))
    => LET valid == IF request'.method = "DELETE"
                    THEN ValidIds(request'.body)
                    ELSE ValidDocuments(request'.body)
       IN  /\ (response'.status = 413) <=> (Len(valid) > _SAFETY_LIMIT)
           /\ (Len(valid) <= _SAFETY_LIMIT)
                  => /\ response'.status \in {0, 200}
                     /\ (pc' = "idle") => response'.status = 200
                     /\ call'.items = valid
                     /\ Concat([n \in 1..Len(futures') |-> futures'[n].chunk])
                            = SubSeq(valid, 1, Len(Concat(
                                  [n \in 1..Len(futures') |-> futures'[n].chunk])))

\* C13 as stated: the safety limit is applied to the number of entries that
\* survive validation, not to the number of entries of the body: a body of
\* more than _SAFETY_LIMIT entries of which at most _SAFETY_LIMIT are valid
\* is answered 200 and only the valid entries are sent to the backend; 413
\* is returned exactly when the valid entries number more than
\* _SAFETY_LIMIT.
C13_LimitCountsValidEntries ==
    [][LimitCountsValid(FALSE)]_vars

\* The same, a DELETE being considered only when the entries of its body
\* are all strings.
LimitCountsValidStrings ==
    [][LimitCountsValid(TRUE)]_vars

\* The index after the backend has applied chunk n of the current call.
ChunkApplied(idx, n) ==
    IF call.kind = "put" THEN IndexPut(idx, futures[n].chunk)
    ELSE IndexDelete(idx, futures[n].chunk)

\* The index after the backend has applied the chunks in the given order.
RECURSIVE AppliedInOrder(_, _)
AppliedInOrder(idx, order) ==
    IF order = <<>> THEN idx
    ELSE AppliedInOrder(ChunkApplied(idx, order[1]), Tail(order))

\* The orders in which the backend may apply the given chunks.
Orders(S) ==
    {p \in [1..Cardinality(S) -> S] : \A x \in S : \E n \in DOMAIN p : p[n] = x}

\* C14: when the chunks of a POST, PUT or DELETE all succeed, the final
\* content of the index is the same for every order in which the backend
\* applies them: whatever chunks are outstanding, every order of applying
\* them leads to the same index; the documents of one put have pairwise
\* distinct identifiers; and once every chunk has succeeded, each of them
\* is in effect: the documents of a put are stored as sent, the
\* identifiers of a delete are gone, duplicates among them or not.
C14_OrderIndependent ==
    (call.kind \in {"delete", "put"})
    => /\ (call.kind = "put")
              => \A m, n \in 1..Len(call.items) :
                     (m # n) => call.items[m].v[1] # call.items[n].v[1]
       /\ \A p, q \in Orders(Pending) :
              AppliedInOrder(index, p) = AppliedInOrder(index, q)
       /\ (\A n \in 1..Len(futures) : futures[n].status = "ok")
              => \A n \in 1..Len(futures) : Applied(n)

\* Every chunk of a put of more than one chunk has succeeded, the call has
\* returned and the index holds every document of the call.
C14_Witness ==
    /\ call.kind = "put"
    /\ pc = "idle"
    /\ response.status = 200
    /\ Len(futures) = CeilDiv(_SAFETY_LIMIT, _BATCH_SIZE)
    /\ Len(futures) > 1
    /\ \A n \in 1..Len(futures) : futures[n].status = "ok"
    /\ \A n \in 1..Len(call.items) :
           /\ call.items[n].v[1] \in DOMAIN index
           /\ index[call.items[n].v[1]] = call.items[n].v[2]

====
